---- MODULE Spec2Model ----
(***************************************************************************)
(* The feed subsystem of fritter: FeedCollection (addOne, findOneByUser,   *)
(* refreshFeed, updateActiveFilter, deleteOne, getFollowingFreets), the    *)
(* feed middleware (isFeedExists, isFeedOwner) and the two feed routes     *)
(* (GET /api/feeds, PUT /api/feeds/:activeFilter?); and the channels:       *)
(* ChannelCollection, the channel middleware and the channel routes        *)
(* (create, delete, update, join, leave).                                  *)
(*                                                                         *)
(* Every await of the code is a step of its own: between two steps of a    *)
(* request the Post Store, the Feed collection and the clock may change.   *)
(***************************************************************************)
EXTENDS Integers, Sequences, FiniteSets, TLC

\* ------------------------------------------------------------------ bounds
MaxPosts == 2   \* freets ever added to the Post Store
MaxTime == 1    \* ticks of the clock
MaxChannels == 2  \* channels ever created
MaxMembers == 2   \* length of a channel's users array

\* ---------------------------------------------------------------- universes
Slots == {1}                 \* requests in flight at the same time
SessionUsers == {1, 2}       \* users that log in
FeedOwners == {1}            \* users for whom feeds are created
FeedIds == {1, 2}            \* the _id values of the feed records ever created
NoSession == 0               \* req.session.userId of a request that is not logged in
Undefined == "#undefined"    \* the JavaScript value undefined (no string of the model)
FilterParams == {"latest", "following", "sports", "", Undefined}

\* the freet with a given id: its author (user 2 or 3) and its tags
AuthorOf(id) == IF id % 2 = 1 THEN 2 ELSE 3
TagsOf(id) ==
  IF id % 3 = 1 THEN {"sports"}
  ELSE IF id % 3 = 2 THEN {"following"}
  ELSE {"sports", "latest"}

VARIABLES
  store,       \* Post Store: the freets, in the store's order
  nextPostId,  \* number of freets added so far
  feeds,       \* the Feed collection, in insertion order
  nextFeedId,  \* number of feed records created so far
  adding,      \* the document of the addOne call in flight (NoDoc when there is none)
  now,         \* the clock read by new Date()
  req,         \* the requests: slot -> the request's position and locals
  lastDelete,  \* the value returned by the last FeedCollection.deleteOne call
  channels,       \* the Channel collection, in insertion order
  nextChannelId,  \* number of channels created so far
  creq            \* the channel requests: slot -> the request's position and locals

feedVars == <<store, nextPostId, feeds, nextFeedId, adding, now, req, lastDelete>>
chanVars == <<channels, nextChannelId, creq>>
vars == <<feedVars, chanVars>>

\* ------------------------------------------------------------ plain helpers
Digits == <<"0", "1", "2", "3", "4", "5", "6", "7", "8", "9">>

\* Number.prototype.toString of an array index
NatToString(n) == Digits[n + 1]

\* ObjectId.prototype.toString: 24 hexadecimal characters
UserIdToString(n) == "63a00000000000000000000" \o Digits[n + 1]
FreetIdToString(n) == "63b00000000000000000000" \o Digits[n + 1]
FeedIdToString(n) == "63c00000000000000000000" \o Digits[n + 1]

NoDoc ==
  [_id |-> 0, ownerId |-> 0, filters |-> <<>>, activeFilter |-> "", freets |-> <<>>,
   lastRefresh |-> 0]

\* a request slot: pc is the await the request is suspended at; doc is the
\* in-memory feed document; before is the record as first loaded by the handler;
\* seen, seenAt and queried record the store, the time and the query of the
\* request's store query (history, read by the properties only); atomics is
\* the update operator the document has registered for its freets array,
\* timeModified says that lastRefresh is a modified path of the document and
\* stale says that the document's __v is no longer the persisted one
IdleReq ==
  [pc |-> "idle", op |-> "none", session |-> NoSession, param |-> Undefined,
   before |-> NoDoc, doc |-> NoDoc, seen |-> <<>>, seenAt |-> 0, queried |-> "none",
   atomics |-> "none", timeModified |-> FALSE, stale |-> FALSE, status |-> "none"]

\* ------------------------------------------------------- external services
\* User Directory: the following array of a user
Following(userId) == IF userId = 1 THEN <<2>> ELSE <<3, 1>>

\* FreetCollection.findAll on a store content: all freets, in store order
FindAll(st) == st

\* FreetCollection.findAllWithTag: the freets that carry the tag, in store order
FindAllWithTag(st, tag) == SelectSeq(st, LAMBDA f : tag \in f.tags)

\* UserCollection.findOneByUserId: the user document
FindOneByUserId(userId) == [_id |-> userId, following |-> Following(userId)]

\* User Directory: the username of a user
Username(userId) == "user" \o Digits[userId + 1]

\* userValidator.isUserLoggedIn: the session carries a user id
IsLoggedIn(session) == session # NoSession

\* ------------------------------------------------------------- Feed model
\* Mongoose's required validator of a String path: a string of length > 0
CheckRequiredString(v) == v # Undefined /\ v # ""

ValidateNothing(doc) == TRUE

\* FeedSchema: activeFilter is required (validated by document.save())
ValidateFeed(doc) == CheckRequiredString(doc.activeFilter)

FindOneOfAnyOwner(ownerId) == IF feeds # <<>> THEN 1 ELSE 0

\* FeedModel.findOne({ownerId}): index of the first record of the owner, 0 for null
FindOneByUser(ownerId) ==
  IF \E i \in DOMAIN feeds : feeds[i].ownerId = ownerId
  THEN CHOOSE i \in DOMAIN feeds :
         /\ feeds[i].ownerId = ownerId
         /\ \A j \in DOMAIN feeds : feeds[j].ownerId = ownerId => i <= j
  ELSE 0

\* index of the record with the given _id, 0 when there is none
IndexOfId(id) ==
  IF \E i \in DOMAIN feeds : feeds[i]._id = id
  THEN CHOOSE i \in DOMAIN feeds : feeds[i]._id = id
  ELSE 0

\* the own and inherited property names of a JavaScript array
ArrayKeys(arr) ==
  {NatToString(i - 1) : i \in DOMAIN arr}
    \cup {"length", "constructor", "push", "pop", "indexOf", "includes"}

\* JavaScript's `key in arr`
InOperator(key, arr) == key \in ArrayKeys(arr)

\* FeedCollection.getFollowingFreets
GetFollowingFreets(st, ownerId) ==
  LET freets == FindAll(st)
      user == FindOneByUserId(ownerId)
  IN SelectSeq(freets, LAMBDA f : InOperator(UserIdToString(f.authorId), user.following))

DispatchTagFirst(activeFilter) ==
  IF activeFilter = "latest" THEN "findAll" ELSE "findAllWithTag"

\* refreshFeed, lines 130-136: the query the active filter is dispatched to
Dispatch(activeFilter) ==
  IF activeFilter = "latest" THEN "findAll"
  ELSE IF activeFilter = "following" THEN "getFollowingFreets"
  ELSE "findAllWithTag"

\* refreshFeed, lines 129-136: the freets selected for the feed
SelectFreets(st, activeFilter, ownerId) ==
  IF Dispatch(activeFilter) = "findAll" THEN FindAll(st)
  ELSE IF Dispatch(activeFilter) = "getFollowingFreets" THEN GetFollowingFreets(st, ownerId)
  ELSE FindAllWithTag(st, activeFilter)

\* the ids pushed by the loop of lines 140-142
FreetIds(freets) == [i \in DOMAIN freets |-> FreetIdToString(freets[i]._id)]

RefreshedByMerge(doc, freets) ==
  [doc EXCEPT !.freets = @ \o FreetIds(freets), !.lastRefresh = now]

\* refreshFeed, lines 138-145: the document with its freets replaced and the time set
\* (an array, even an empty one, is truthy: the branch of line 138 is always taken)
Refreshed(doc, freets) ==
  [doc EXCEPT !.freets = FreetIds(freets), !.lastRefresh = now]

\* refreshFeed, lines 139-142, as Mongoose tracks them: assigning [] to a
\* non-empty array modifies the path, and the array is then written whole
\* ($set); assigning [] to an empty array modifies nothing, and the pushes that
\* follow are written as $push
ArrayAtomics(loaded, pushed) ==
  IF loaded # <<>> THEN "$set"
  ELSE IF pushed # <<>> THEN "$push"
  ELSE "none"

\* Mongoose's change tracking of an assignment (feed model lines 145 and 159,
\* updateOne of the channels): assigning to a path the value the document was
\* loaded with modifies nothing (Dates are compared by their time)
IsModified(loaded, assigned) == assigned # loaded

\* document.save() of refreshFeed: the modified paths; freets is set, or the
\* pushed ids are appended to the persisted array, and lastRefresh is written
\* when the time assigned is not the one loaded
SaveRefreshed(doc, atomics, timeModified) ==
  [i \in DOMAIN feeds |->
     IF feeds[i]._id = doc._id
     THEN [feeds[i] EXCEPT !.freets = IF atomics = "$set" THEN doc.freets
                                      ELSE IF atomics = "$push" THEN @ \o doc.freets
                                      ELSE @,
                           !.lastRefresh = IF timeModified THEN doc.lastRefresh ELSE @]
     ELSE feeds[i]]

\* a save of the freets array increments __v: every other request that holds
\* the same document in memory now holds an old version
FeedOutdated(r, id, atomics) ==
  [q \in DOMAIN req |->
     IF q # r /\ atomics # "none" /\ req[q].doc._id = id
     THEN [req[q] EXCEPT !.stale = TRUE] ELSE req[q]]

\* document.save() of updateActiveFilter: the modified paths, that is
\* activeFilter when the filter assigned is not the one loaded; a save with no
\* modified path writes nothing
SaveActiveFilter(loaded, doc) ==
  [i \in DOMAIN feeds |->
     IF feeds[i]._id = doc._id /\ IsModified(loaded.activeFilter, doc.activeFilter)
     THEN [feeds[i] EXCEPT !.activeFilter = doc.activeFilter]
     ELSE feeds[i]]

\* FeedCollection.addOne: the new record
NewFeed(ownerId) ==
  [_id |-> nextFeedId + 1, ownerId |-> ownerId, filters |-> <<>>, activeFilter |-> "latest",
   freets |-> <<>>, lastRefresh |-> now]

\* FeedModel.deleteOne({_id}): the DeleteResult, an object and never null
DeleteResult(feedId) ==
  [acknowledged |-> TRUE, deletedCount |-> IF IndexOfId(feedId) # 0 THEN 1 ELSE 0]

\* FeedCollection.deleteOne, line 172: feed !== null
DeleteOneReturns(feedId) == DeleteResult(feedId) \in [acknowledged : BOOLEAN, deletedCount : {0, 1}]

\* ------------------------------------------------------------ Feed response
\* the paths populated on the document refreshFeed returns (line 147); ownerId
\* is not among them: refreshFeed loads the document with FeedModel.findOne,
\* without populate('ownerId')
PopulatedByRefresh == {"freets", "lastRefresh"}

\* feed.toObject({versionKey: false}): every path of the document, without __v
ToObject(feed) == feed

\* `const {username} = feedCopy.ownerId`: the username of a populated owner,
\* undefined when ownerId is still the ObjectId
ReadUsername(feedCopy, populated) ==
  IF "ownerId" \in populated THEN Username(feedCopy.ownerId) ELSE Undefined

\* constructFeedResponse: the copy without ownerId, _id as a string, owner added
ConstructFeedResponse(feed, populated) ==
  LET feedCopy == ToObject(feed)
      username == ReadUsername(feedCopy, populated)
      kept == DOMAIN feedCopy \ {"ownerId"}
  IN [k \in kept \cup {"_id", "owner"} |->
        IF k = "_id" THEN FeedIdToString(feedCopy._id)
        ELSE IF k = "owner" THEN username
        ELSE feedCopy[k]]

\* ---------------------------------------------------------- Channel model
ChanSlots == {1}             \* channel requests in flight, one at a time
ChannelIds == 1..MaxChannels \* the _id values a request can name

\* strings of the channel routes, as sequences of characters
NameA == <<"a">>
NameB == <<"b">>
NameWithSpace == <<"a", " ">>
DescriptionD == <<"d">>
DescriptionE == <<"e">>
DescriptionBlank == <<" ">>

\* the characters of the class [a-zA-Z0-9-_] that the names of the model use
NameChars == {"a", "b", "-", "_"}
Whitespace == {" "}

\* isValidChannelName, line 108-109: /^[a-zA-Z0-9-_]+$/i.test(name)
NameRegexTest(name) == Len(name) >= 1 /\ \A i \in DOMAIN name : name[i] \in NameChars

\* isValidChannelDescription, line 127: !description.trim()
TrimIsEmpty(description) == \A i \in DOMAIN description : description[i] \in Whitespace

\* a channel document (dateCreated is never read by the routes and is left out)
NoChannel == [_id |-> 0, ownerId |-> 0, name |-> <<>>, description |-> <<>>, users |-> <<>>]

\* a channel request slot: name, channelId and description are fields of
\* req.body, paramId is req.params.channelId, chan is the in-memory document,
\* modified says that description is a modified path of the document and
\* stale says that the document's __v is no longer the persisted one
IdleChanReq ==
  [pc |-> "idle", op |-> "none", session |-> NoSession, name |-> <<>>, channelId |-> 0,
   paramId |-> 0, description |-> <<>>, chan |-> NoChannel, modified |-> FALSE,
   stale |-> FALSE, status |-> "none"]

\* ChannelModel.findOne({name}): index of the first channel of that name, 0 for null
FindOneByName(name) ==
  IF \E i \in DOMAIN channels : channels[i].name = name
  THEN CHOOSE i \in DOMAIN channels :
         /\ channels[i].name = name
         /\ \A j \in DOMAIN channels : channels[j].name = name => i <= j
  ELSE 0

\* ChannelModel.findOne({_id: channelId}): index of the channel, 0 for null
ChannelIndexOfId(channelId) ==
  IF \E i \in DOMAIN channels : channels[i]._id = channelId
  THEN CHOOSE i \in DOMAIN channels : channels[i]._id = channelId
  ELSE 0

\* Array.prototype.indexOf: the first index (from 0) of the value, -1 when absent
IndexOf(arr, v) ==
  IF \E i \in DOMAIN arr : arr[i] = v
  THEN (CHOOSE i \in DOMAIN arr : arr[i] = v /\ \A j \in DOMAIN arr : arr[j] = v => i <= j) - 1
  ELSE -1

\* Array.prototype.splice(start, deleteCount): a negative start counts from the end
Splice(arr, start, deleteCount) ==
  LET len == Len(arr)
      from == IF start < 0 THEN (IF len + start < 0 THEN 0 ELSE len + start)
              ELSE (IF start > len THEN len ELSE start)
      upto == IF from + deleteCount > len THEN len ELSE from + deleteCount
  IN SubSeq(arr, 1, from) \o SubSeq(arr, upto + 1, len)

\* the loop of isUserNotAlreadyInChannel and isUserInChannel: user.username === username
UsernameInUsers(userId, users) == \E i \in DOMAIN users : users[i] = Username(userId)

\* ChannelCollection.addOne: the new channel
NewChannel(ownerId, name, description) ==
  [_id |-> nextChannelId + 1, ownerId |-> ownerId, name |-> name,
   description |-> description, users |-> <<>>]

\* document.save() of joinOne: users.push is sent as $push, the username is
\* appended to the persisted array
SavePushed(doc, username) ==
  [i \in DOMAIN channels |->
     IF channels[i]._id = doc._id
     THEN [channels[i] EXCEPT !.users = Append(@, username)]
     ELSE channels[i]]

\* document.save() of leaveOne: users.splice is sent as $set of the whole array
SaveUsers(doc) ==
  [i \in DOMAIN channels |->
     IF channels[i]._id = doc._id THEN [channels[i] EXCEPT !.users = doc.users]
     ELSE channels[i]]

\* document.save() of updateOne: the modified paths, that is description when
\* the description assigned is not the one loaded; a save with no modified
\* path writes nothing
SaveDescription(doc, modified) ==
  [i \in DOMAIN channels |->
     IF channels[i]._id = doc._id /\ modified
     THEN [channels[i] EXCEPT !.description = doc.description]
     ELSE channels[i]]

\* a save of the users array increments __v: every other request that holds
\* the same document in memory now holds an old version
Outdated(r, id) ==
  [q \in DOMAIN creq |->
     IF q # r /\ creq[q].chan._id = id THEN [creq[q] EXCEPT !.stale = TRUE] ELSE creq[q]]

\* ------------------------------------------------------------------- Init
Init ==
  /\ store = <<>>
  /\ nextPostId = 0
  /\ feeds = <<>>
  /\ nextFeedId = 0
  /\ adding = NoDoc
  /\ now = 0
  /\ req = [r \in Slots |-> IdleReq]
  /\ lastDelete = [returned |-> FALSE]
  /\ channels = <<>>
  /\ nextChannelId = 0
  /\ creq = [r \in ChanSlots |-> IdleChanReq]

\* ------------------------------------------------------------ environment
\* a freet is added to the Post Store
AddFreet ==
  /\ nextPostId < MaxPosts
  /\ store' = Append(store, [_id |-> nextPostId + 1, authorId |-> AuthorOf(nextPostId + 1),
                              tags |-> TagsOf(nextPostId + 1)])
  /\ nextPostId' = nextPostId + 1
  /\ UNCHANGED <<chanVars, adding, feeds, nextFeedId, now, req, lastDelete>>

\* a freet is removed from the Post Store
DeleteFreet ==
  /\ \E i \in DOMAIN store :
       store' = SubSeq(store, 1, i - 1) \o SubSeq(store, i + 1, Len(store))
  /\ UNCHANGED <<chanVars, adding, nextPostId, feeds, nextFeedId, now, req, lastDelete>>

\* the clock advances
Tick ==
  /\ now < MaxTime
  /\ now' = now + 1
  /\ UNCHANGED <<chanVars, adding, store, nextPostId, feeds, nextFeedId, req, lastDelete>>

\* FeedCollection.addOne(ownerId), lines 85-95: the clock is read and the
\* document is built (with its _id) when the function is called
AddOne ==
  /\ adding = NoDoc
  /\ nextFeedId + 1 \in FeedIds
  /\ \E ownerId \in FeedOwners : adding' = NewFeed(ownerId)
  /\ nextFeedId' = nextFeedId + 1
  /\ UNCHANGED <<chanVars, store, nextPostId, feeds, now, req, lastDelete>>

\* FeedCollection.addOne, lines 96-97: the awaited save inserts the record
AddOneSave ==
  /\ adding # NoDoc
  /\ feeds' = Append(feeds, adding)
  /\ adding' = NoDoc
  /\ UNCHANGED <<chanVars, store, nextPostId, nextFeedId, now, req, lastDelete>>

\* FeedCollection.deleteOne(feedId)
DeleteOne ==
  /\ \E feedId \in FeedIds :
       /\ feeds' = SelectSeq(feeds, LAMBDA f : f._id # feedId)
       /\ lastDelete' = [returned |-> DeleteOneReturns(feedId)]
  /\ UNCHANGED <<chanVars, adding, store, nextPostId, nextFeedId, now, req>>

\* ---------------------------------------------------------------- requests
\* the request ends: with a response (200, 403, 404) or with the error thrown
Finish(r, status) ==
  [IdleReq EXCEPT !.pc = "done", !.op = req[r].op, !.session = req[r].session,
                  !.status = status]

\* a request arrives (GET /api/feeds or PUT /api/feeds/:activeFilter?) and
\* userValidator.isUserLoggedIn runs
IsUserLoggedIn(r) ==
  /\ req[r].pc \in {"idle", "done"}
  /\ \E op \in {"GET", "PUT"}, session \in SessionUsers \cup {NoSession},
        param \in FilterParams :
       /\ op = "GET" => param = Undefined
       /\ LET fresh == [IdleReq EXCEPT !.op = op, !.session = session, !.param = param]
          IN req' = [req EXCEPT ![r] =
                       IF IsLoggedIn(session)
                       THEN [fresh EXCEPT !.pc = "isFeedExists"]
                       ELSE [fresh EXCEPT !.pc = "done", !.param = Undefined,
                                          !.status = "403"]]
  /\ UNCHANGED <<chanVars, adding, store, nextPostId, feeds, nextFeedId, now, lastDelete>>

\* feedValidator.isFeedExists, lines 9-11: is there a feed of the session's user
IsFeedExistsPasses(session) == FindOneByUser(FindOneByUserId(session)._id) # 0

\* feedValidator.isFeedExists
IsFeedExists(r) ==
  /\ req[r].pc = "isFeedExists"
  /\ req' = [req EXCEPT ![r] =
               IF IsFeedExistsPasses(req[r].session)
               THEN [req[r] EXCEPT !.pc = "isFeedOwner"]
               ELSE Finish(r, "404")]
  /\ UNCHANGED <<chanVars, adding, store, nextPostId, feeds, nextFeedId, now, lastDelete>>

\* feedValidator.isFeedOwner
IsFeedOwner(r) ==
  /\ req[r].pc = "isFeedOwner"
  /\ LET i == FindOneByUser(req[r].session)
     IN req' = [req EXCEPT ![r] =
                  IF i = 0 THEN Finish(r, "TypeError")
                  ELSE IF UserIdToString(req[r].session) # UserIdToString(feeds[i].ownerId)
                  THEN Finish(r, "403")
                  ELSE [req[r] EXCEPT !.pc = IF req[r].op = "GET" THEN "refresh_find"
                                              ELSE "update_find"]]
  /\ UNCHANGED <<chanVars, adding, store, nextPostId, feeds, nextFeedId, now, lastDelete>>

\* updateActiveFilter, lines 158-159: findOne, then the assignment
UpdateFind(r) ==
  /\ req[r].pc = "update_find"
  /\ LET i == FindOneByUser(req[r].session)
     IN req' = [req EXCEPT ![r] =
                  IF i = 0 THEN Finish(r, "TypeError")
                  ELSE [req[r] EXCEPT !.pc = "update_save",
                                      !.before = feeds[i],
                                      !.doc = [feeds[i] EXCEPT !.activeFilter = req[r].param]]]
  /\ UNCHANGED <<chanVars, adding, store, nextPostId, feeds, nextFeedId, now, lastDelete>>

\* updateActiveFilter, line 160: feed.save(), of the document loaded as
\* req[r].before and assigned to at line 159
UpdateSave(r) ==
  /\ req[r].pc = "update_save"
  /\ IF ~ValidateFeed(req[r].doc)
     THEN /\ req' = [req EXCEPT ![r] = Finish(r, "ValidationError")]
          /\ feeds' = feeds
     ELSE IF IndexOfId(req[r].doc._id) = 0
     THEN /\ req' = [req EXCEPT ![r] = Finish(r, "DocumentNotFoundError")]
          /\ feeds' = feeds
     ELSE /\ feeds' = SaveActiveFilter(req[r].before, req[r].doc)
          /\ req' = [req EXCEPT ![r].pc = "refresh_find"]
  /\ UNCHANGED <<chanVars, adding, store, nextPostId, nextFeedId, now, lastDelete>>

\* refreshFeed, line 127: findOne
RefreshFind(r) ==
  /\ req[r].pc = "refresh_find"
  /\ LET i == FindOneByUser(req[r].session)
     IN req' = [req EXCEPT ![r] =
                  IF i = 0 THEN Finish(r, "TypeError")
                  ELSE [req[r] EXCEPT !.pc = "refresh_query",
                                      !.before = IF req[r].op = "GET" THEN feeds[i] ELSE @,
                                      !.doc = feeds[i],
                                      !.stale = FALSE]]
  /\ UNCHANGED <<chanVars, adding, store, nextPostId, feeds, nextFeedId, now, lastDelete>>

\* refreshFeed, lines 129-145: the store query (which may fail) and, for the
\* filters "latest" and a tag, the replacement; for "following" the store
\* query is line 182 of getFollowingFreets and the user lookup follows
RefreshQuery(r) ==
  /\ req[r].pc = "refresh_query"
  /\ \E fails \in BOOLEAN :
       req' = [req EXCEPT ![r] =
                 IF fails THEN Finish(r, "StoreError")
                 ELSE IF Dispatch(req[r].doc.activeFilter) = "getFollowingFreets"
                 THEN [req[r] EXCEPT
                         !.pc = "refresh_user",
                         !.seen = store,
                         !.seenAt = now,
                         !.queried = Dispatch(req[r].doc.activeFilter)]
                 ELSE [req[r] EXCEPT
                         !.pc = "refresh_save",
                         !.seen = store,
                         !.seenAt = now,
                         !.queried = Dispatch(req[r].doc.activeFilter),
                         !.atomics = ArrayAtomics(req[r].doc.freets,
                                                  SelectFreets(store, req[r].doc.activeFilter,
                                                               req[r].session)),
                         !.timeModified = IsModified(req[r].doc.lastRefresh, now),
                         !.doc = Refreshed(req[r].doc,
                                           SelectFreets(store, req[r].doc.activeFilter,
                                                        req[r].session))]]
  /\ UNCHANGED <<chanVars, adding, store, nextPostId, feeds, nextFeedId, now, lastDelete>>

\* getFollowingFreets, lines 183-191, then refreshFeed, lines 138-145: the user
\* lookup (which may fail), the selection from the freets found by line 182,
\* the replacement and the reading of the clock
RefreshUser(r) ==
  /\ req[r].pc = "refresh_user"
  /\ \E fails \in BOOLEAN :
       req' = [req EXCEPT ![r] =
                 IF fails THEN Finish(r, "StoreError")
                 ELSE [req[r] EXCEPT
                         !.pc = "refresh_save",
                         !.atomics = ArrayAtomics(req[r].doc.freets,
                                                  GetFollowingFreets(req[r].seen,
                                                                     req[r].session)),
                         !.timeModified = IsModified(req[r].doc.lastRefresh, now),
                         !.doc = Refreshed(req[r].doc,
                                           GetFollowingFreets(req[r].seen, req[r].session))]]
  /\ UNCHANGED <<chanVars, adding, store, nextPostId, feeds, nextFeedId, now, lastDelete>>

\* refreshFeed, line 146: feed.save() of the modified paths; a save that
\* carries the freets array
\* fails with a VersionError when no record matches: the record is gone or,
\* for a whole array, the document is an old version
RefreshSave(r) ==
  /\ req[r].pc = "refresh_save"
  /\ IF IndexOfId(req[r].doc._id) = 0
     THEN /\ req' = [req EXCEPT ![r] =
                       Finish(r, IF req[r].atomics = "none" THEN "DocumentNotFoundError"
                                 ELSE "VersionError")]
          /\ feeds' = feeds
     ELSE IF req[r].atomics = "$set" /\ req[r].stale
     THEN /\ req' = [req EXCEPT ![r] = Finish(r, "VersionError")]
          /\ feeds' = feeds
     ELSE /\ feeds' = SaveRefreshed(req[r].doc, req[r].atomics, req[r].timeModified)
          /\ req' = [FeedOutdated(r, req[r].doc._id, req[r].atomics)
                       EXCEPT ![r].pc = "refresh_populate"]
  /\ UNCHANGED <<chanVars, adding, store, nextPostId, nextFeedId, now, lastDelete>>

\* refreshFeed, line 147: the populate calls, then the handler's 200 response
RefreshPopulate(r) ==
  /\ req[r].pc = "refresh_populate"
  /\ req' = [req EXCEPT ![r] = Finish(r, "200")]
  /\ UNCHANGED <<chanVars, adding, store, nextPostId, feeds, nextFeedId, now, lastDelete>>

Next ==
  \/ AddFreet
  \/ DeleteFreet
  \/ Tick
  \/ AddOne
  \/ AddOneSave
  \/ DeleteOne
  \/ \E r \in Slots :
       \/ IsUserLoggedIn(r)
       \/ IsFeedExists(r)
       \/ IsFeedOwner(r)
       \/ UpdateFind(r)
       \/ UpdateSave(r)
       \/ RefreshFind(r)
       \/ RefreshQuery(r)
       \/ RefreshUser(r)
       \/ RefreshSave(r)
       \/ RefreshPopulate(r)

Spec == Init /\ [][Next]_vars

\* -------------------------------------------------------- channel requests
\* the channel request ends: with a response or with the error thrown
ChanFinish(status) == [IdleChanReq EXCEPT !.pc = "done", !.status = status]

\* a channel request arrives; userValidator.isUserLoggedIn runs, and on
\* POST /api/channels isValidChannelDescription and isValidChannelName
ChanArrive(r, ops, names, descriptions) ==
  /\ creq[r].pc \in {"idle", "done"}
  /\ \E op \in ops, session \in SessionUsers \cup {NoSession}, name \in names,
        channelId \in ChannelIds, paramId \in ChannelIds, description \in descriptions :
       /\ op \in {"create", "join", "leave"} => channelId = 1 /\ paramId = 1
       /\ op \in {"delete", "join", "leave"} => description = DescriptionD
       /\ LET fresh == [IdleChanReq EXCEPT
                          !.op = op, !.session = session, !.name = name,
                          !.channelId = IF op \in {"delete", "put"} THEN channelId ELSE 0,
                          !.paramId = IF op \in {"delete", "put"} THEN paramId ELSE 0,
                          !.description = IF op \in {"create", "put"} THEN description
                                          ELSE <<>>]
          IN creq' = [creq EXCEPT ![r] =
                        IF ~IsLoggedIn(session) THEN ChanFinish("403")
                        ELSE IF op # "create" THEN [fresh EXCEPT !.pc = "isChannelExists"]
                        ELSE IF TrimIsEmpty(description) \/ ~NameRegexTest(name)
                        THEN ChanFinish("400")
                        ELSE [fresh EXCEPT !.pc = "isChannelNotAlreadyInUse"]]
  /\ UNCHANGED <<feedVars, channels, nextChannelId>>

\* channelValidator.isChannelExists: looks the channel up by req.body.name
IsChannelExists(r) ==
  /\ creq[r].pc = "isChannelExists"
  /\ creq' = [creq EXCEPT ![r] =
                IF FindOneByName(creq[r].name) = 0 THEN ChanFinish("404")
                ELSE [creq[r] EXCEPT !.pc =
                        IF creq[r].op \in {"delete", "put"} THEN "isChannelOwner"
                        ELSE IF creq[r].op = "join" THEN "isUserNotAlreadyInChannel"
                        ELSE "isUserInChannel"]]
  /\ UNCHANGED <<feedVars, channels, nextChannelId>>

\* channelValidator.isChannelOwner: looks the channel up by req.body.channelId;
\* on PUT isValidChannelDescription follows
IsChannelOwner(r) ==
  /\ creq[r].pc = "isChannelOwner"
  /\ LET i == ChannelIndexOfId(creq[r].channelId)
     IN creq' = [creq EXCEPT ![r] =
                   IF i = 0 THEN ChanFinish("TypeError")
                   ELSE IF UserIdToString(creq[r].session) # UserIdToString(channels[i].ownerId)
                   THEN ChanFinish("403")
                   ELSE IF creq[r].op = "delete" THEN [creq[r] EXCEPT !.pc = "deleteOne"]
                   ELSE IF TrimIsEmpty(creq[r].description) THEN ChanFinish("400")
                   ELSE [creq[r] EXCEPT !.pc = "updateOne_find"]]
  /\ UNCHANGED <<feedVars, channels, nextChannelId>>

\* DELETE handler: ChannelCollection.deleteOne(req.params.channelId), then 200
ChanDeleteOne(r) ==
  /\ creq[r].pc = "deleteOne"
  /\ channels' = SelectSeq(channels, LAMBDA c : c._id # creq[r].paramId)
  /\ creq' = [creq EXCEPT ![r] = ChanFinish("200")]
  /\ UNCHANGED <<feedVars, nextChannelId>>

\* PUT handler, updateOne lines 311-312: findOne({_id: req.params.channelId}),
\* then the assignment of the description
ChanUpdateFind(r) ==
  /\ creq[r].pc = "updateOne_find"
  /\ LET i == ChannelIndexOfId(creq[r].paramId)
     IN creq' = [creq EXCEPT ![r] =
                   IF i = 0 THEN ChanFinish("TypeError")
                   ELSE [creq[r] EXCEPT
                           !.pc = "updateOne_save",
                           !.modified = IsModified(channels[i].description,
                                                   creq[r].description),
                           !.chan = [channels[i] EXCEPT !.description = creq[r].description]]]
  /\ UNCHANGED <<feedVars, channels, nextChannelId>>

\* updateOne lines 313-314: channel.save(), the populate, then the 200 response
ChanUpdateSave(r) ==
  /\ creq[r].pc = "updateOne_save"
  /\ IF ChannelIndexOfId(creq[r].chan._id) = 0
     THEN /\ creq' = [creq EXCEPT ![r] = ChanFinish("DocumentNotFoundError")]
          /\ channels' = channels
     ELSE /\ channels' = SaveDescription(creq[r].chan, creq[r].modified)
          /\ creq' = [creq EXCEPT ![r] = ChanFinish("200")]
  /\ UNCHANGED <<feedVars, nextChannelId>>

\* channelValidator.isChannelNotAlreadyInUse
IsChannelNotAlreadyInUse(r) ==
  /\ creq[r].pc = "isChannelNotAlreadyInUse"
  /\ creq' = [creq EXCEPT ![r] =
                IF FindOneByName(creq[r].name) # 0 THEN ChanFinish("409")
                ELSE [creq[r] EXCEPT !.pc = "addOne"]]
  /\ UNCHANGED <<feedVars, channels, nextChannelId>>

\* POST handler: ChannelCollection.addOne, then 201
ChanAddOne(r) ==
  /\ creq[r].pc = "addOne"
  /\ nextChannelId < MaxChannels
  /\ channels' = Append(channels, NewChannel(creq[r].session, creq[r].name,
                                              creq[r].description))
  /\ nextChannelId' = nextChannelId + 1
  /\ creq' = [creq EXCEPT ![r] = ChanFinish("201")]
  /\ UNCHANGED feedVars

\* channelValidator.isUserNotAlreadyInChannel
IsUserNotAlreadyInChannel(r) ==
  /\ creq[r].pc = "isUserNotAlreadyInChannel"
  /\ LET i == FindOneByName(creq[r].name)
     IN creq' = [creq EXCEPT ![r] =
                   IF i = 0 THEN ChanFinish("TypeError")
                   ELSE IF UsernameInUsers(creq[r].session, channels[i].users)
                   THEN ChanFinish("403")
                   ELSE [creq[r] EXCEPT !.pc = "joinOne_find"]]
  /\ UNCHANGED <<feedVars, channels, nextChannelId>>

\* joinOne, lines 239-241: findOne({name}), then users.push(user.username)
JoinFind(r) ==
  /\ creq[r].pc = "joinOne_find"
  /\ LET i == FindOneByName(creq[r].name)
     IN creq' = [creq EXCEPT ![r] =
                   IF i = 0 THEN ChanFinish("TypeError")
                   ELSE [creq[r] EXCEPT
                           !.pc = "joinOne_save", !.stale = FALSE,
                           !.chan = [channels[i] EXCEPT
                                       !.users = Append(@, Username(creq[r].session))]]]
  /\ UNCHANGED <<feedVars, channels, nextChannelId>>

\* joinOne, lines 242-243: channel.save() (a VersionError when the channel is
\* gone), the populate, then the 201 response
JoinSave(r) ==
  /\ creq[r].pc = "joinOne_save"
  /\ LET i == ChannelIndexOfId(creq[r].chan._id)
     IN IF i = 0
        THEN /\ creq' = [creq EXCEPT ![r] = ChanFinish("VersionError")]
             /\ channels' = channels
        ELSE /\ Len(channels[i].users) < MaxMembers
             /\ channels' = SavePushed(creq[r].chan, Username(creq[r].session))
             /\ creq' = [Outdated(r, creq[r].chan._id) EXCEPT ![r] = ChanFinish("201")]
  /\ UNCHANGED <<feedVars, nextChannelId>>

\* channelValidator.isUserInChannel
IsUserInChannel(r) ==
  /\ creq[r].pc = "isUserInChannel"
  /\ LET i == FindOneByName(creq[r].name)
     IN creq' = [creq EXCEPT ![r] =
                   IF i = 0 THEN ChanFinish("TypeError")
                   ELSE IF ~UsernameInUsers(creq[r].session, channels[i].users)
                   THEN ChanFinish("403")
                   ELSE [creq[r] EXCEPT !.pc = "leaveOne_find"]]
  /\ UNCHANGED <<feedVars, channels, nextChannelId>>

\* leaveOne, lines 254-257: findOne({name}), indexOf, then splice(index, 1)
LeaveFind(r) ==
  /\ creq[r].pc = "leaveOne_find"
  /\ LET i == FindOneByName(creq[r].name)
     IN creq' = [creq EXCEPT ![r] =
                   IF i = 0 THEN ChanFinish("TypeError")
                   ELSE [creq[r] EXCEPT
                           !.pc = "leaveOne_save", !.stale = FALSE,
                           !.chan = [channels[i] EXCEPT
                                       !.users = Splice(@, IndexOf(@, Username(creq[r].session)),
                                                        1)]]]
  /\ UNCHANGED <<feedVars, channels, nextChannelId>>

\* leaveOne, lines 258-259: channel.save() (a VersionError when the channel is
\* gone or the document is an old version), the populate, then the 201 response
LeaveSave(r) ==
  /\ creq[r].pc = "leaveOne_save"
  /\ IF ChannelIndexOfId(creq[r].chan._id) = 0 \/ creq[r].stale
     THEN /\ creq' = [creq EXCEPT ![r] = ChanFinish("VersionError")]
          /\ channels' = channels
     ELSE /\ channels' = SaveUsers(creq[r].chan)
          /\ creq' = [Outdated(r, creq[r].chan._id) EXCEPT ![r] = ChanFinish("201")]
  /\ UNCHANGED <<feedVars, nextChannelId>>

\* ChannelCollection.deleteMany(ownerId): every channel of the owner is removed;
\* no request of the channel routes is involved
ChanDeleteMany ==
  /\ \E ownerId \in SessionUsers :
       channels' = SelectSeq(channels, LAMBDA c : c.ownerId # ownerId)
  /\ UNCHANGED <<feedVars, nextChannelId, creq>>

\* the channel routes, one request at a time
AllChannelOps == {"create", "delete", "put", "join", "leave"}
AllNames == {NameA, NameB, NameWithSpace}
AllDescriptions == {DescriptionD, DescriptionE, DescriptionBlank}

NextChan ==
  \/ ChanDeleteMany
  \/ \E r \in ChanSlots :
    \/ ChanArrive(r, AllChannelOps, AllNames, AllDescriptions)
    \/ IsChannelExists(r)
    \/ IsChannelOwner(r)
    \/ ChanDeleteOne(r)
    \/ ChanUpdateFind(r)
    \/ ChanUpdateSave(r)
    \/ IsChannelNotAlreadyInUse(r)
    \/ ChanAddOne(r)
    \/ IsUserNotAlreadyInChannel(r)
    \/ JoinFind(r)
    \/ JoinSave(r)
    \/ IsUserInChannel(r)
    \/ LeaveFind(r)
    \/ LeaveSave(r)

SpecChan == Init /\ [][NextChan]_vars

\* the feed routes with two requests in flight, on a Post Store that does not
\* change and the one Feed Record of user 1
InitFeedConc ==
  /\ store = [i \in 1..MaxPosts |-> [_id |-> i, authorId |-> AuthorOf(i), tags |-> TagsOf(i)]]
  /\ nextPostId = MaxPosts
  /\ feeds = <<[NoDoc EXCEPT !._id = 1, !.ownerId = 1, !.activeFilter = "latest"]>>
  /\ nextFeedId = 1
  /\ adding = NoDoc
  /\ now = 0
  /\ req = [r \in {1, 2} |-> IdleReq]
  /\ lastDelete = [returned |-> FALSE]
  /\ channels = <<>>
  /\ nextChannelId = 0
  /\ creq = [r \in ChanSlots |-> IdleChanReq]

NextFeedConc ==
  \E r \in {1, 2} :
    \/ IsUserLoggedIn(r)
    \/ IsFeedExists(r)
    \/ IsFeedOwner(r)
    \/ UpdateFind(r)
    \/ UpdateSave(r)
    \/ RefreshFind(r)
    \/ RefreshQuery(r)
    \/ RefreshUser(r)
    \/ RefreshSave(r)
    \/ RefreshPopulate(r)

SpecFeedConc == InitFeedConc /\ [][NextFeedConc]_vars

\* the routes create, join and leave on one channel name, two requests in flight
ConcSlots == {1, 2}

InitChanConc ==
  /\ store = <<>>
  /\ nextPostId = 0
  /\ feeds = <<>>
  /\ nextFeedId = 0
  /\ adding = NoDoc
  /\ now = 0
  /\ req = [r \in Slots |-> IdleReq]
  /\ lastDelete = [returned |-> FALSE]
  /\ channels = <<>>
  /\ nextChannelId = 0
  /\ creq = [r \in ConcSlots |-> IdleChanReq]

NextChanConc ==
  \/ ChanDeleteMany
  \/ \E r \in ConcSlots :
    \/ ChanArrive(r, {"create", "join", "leave"}, {NameA}, {DescriptionD})
    \/ IsChannelExists(r)
    \/ IsChannelNotAlreadyInUse(r)
    \/ ChanAddOne(r)
    \/ IsUserNotAlreadyInChannel(r)
    \/ JoinFind(r)
    \/ JoinSave(r)
    \/ IsUserInChannel(r)
    \/ LeaveFind(r)
    \/ LeaveSave(r)

SpecChanConc == InitChanConc /\ [][NextChanConc]_vars

\* ============================================================== properties
Range(s) == {s[i] : i \in DOMAIN s}

\* the request has run its store query and holds the refreshed document
InRefresh(r) == req[r].pc \in {"refresh_save", "refresh_populate"}

\* the freet of the Post Store with a given id
FreetDoc(id) == [_id |-> id, authorId |-> AuthorOf(id), tags |-> TagsOf(id)]

RECURSIVE ContentOf(_, _)
\* the store content holding the freets with ids in S, from id n upwards
ContentOf(S, n) ==
  IF n > MaxPosts THEN <<>>
  ELSE IF n \in S THEN <<FreetDoc(n)>> \o ContentOf(S, n + 1)
       ELSE ContentOf(S, n + 1)

\* every content the Post Store can have
StoreContents == {ContentOf(S, 1) : S \in SUBSET (1..MaxPosts)}

\* the materialization of section 4.2 of the design: all freets under "latest",
\* the freets of followed authors under "following", else the freets with the tag
Materialization(st, activeFilter, ownerId) ==
  IF activeFilter = "latest" THEN st
  ELSE IF activeFilter = "following"
  THEN SelectSeq(st, LAMBDA f : f.authorId \in Range(Following(ownerId)))
  ELSE SelectSeq(st, LAMBDA f : activeFilter \in f.tags)

\* C1: a refresh under "following" sets posts to the ids of the stored freets
\* whose author is a member of the owner's following set, in store order
C1_FollowingSelectsFollowedAuthors ==
  \A r \in Slots :
    (InRefresh(r) /\ req[r].doc.activeFilter = "following") =>
      req[r].doc.freets = FreetIds(Materialization(req[r].seen, "following", req[r].session))

\* C2: every persisted record holds posts that are a materialization, of some
\* store content, under the record's own activeFilter
C2_PostsMaterializedUnderActiveFilter ==
  \A i \in DOMAIN feeds :
    \E st \in StoreContents :
      feeds[i].freets = FreetIds(Materialization(st, feeds[i].activeFilter, feeds[i].ownerId))

\* C3: when the store query of a refresh or of a filter change fails, the
\* persisted record is the one the call found when it started
C3_FailureLeavesRecordUnchanged ==
  [][\A r \in Slots :
       (/\ req[r].pc = "refresh_query"
        /\ req'[r].status = "StoreError"
        /\ IndexOfId(req[r].before._id) # 0)
       => /\ feeds' = feeds
          /\ feeds[IndexOfId(req[r].before._id)] = req[r].before]_vars

\* the request's filter change has saved its refresh, of the record it loaded
FilterChanged(r) ==
  /\ req[r].pc = "refresh_populate" /\ req[r].op = "PUT"
  /\ req[r].doc._id = req[r].before._id

\* the step is the save of a refresh (GET) of a record that is persisted as
\* the request loaded it, and as a filter change leaves it on the store content
\* the request has read: the posts refreshFeed selects under its activeFilter
RefreshFollowsFilterChange(r) ==
  /\ req[r].pc = "refresh_save" /\ req[r].op = "GET"
  /\ req'[r].pc = "refresh_populate"
  /\ IndexOfId(req[r].doc._id) # 0
  /\ feeds[IndexOfId(req[r].doc._id)] = req[r].before
  /\ req[r].before.freets =
       FreetIds(SelectFreets(req[r].seen, req[r].before.activeFilter, req[r].session))

\* C4: the record a filter change to f returns, and the record it leaves
\* persisted, have activeFilter = f and the posts materialized under f; and on
\* a Post Store that has not changed, the refresh that follows the filter change
\* leaves the record's activeFilter and posts as the filter change left them
C4_FilterChangeThenRefreshConverges ==
  /\ [](\A r \in Slots :
          FilterChanged(r) =>
            LET i == IndexOfId(req[r].doc._id)
            IN /\ req[r].doc.activeFilter = req[r].param
               /\ req[r].doc.freets =
                    FreetIds(Materialization(req[r].seen, req[r].param, req[r].session))
               /\ i # 0 =>
                    /\ feeds[i].activeFilter = req[r].param
                    /\ feeds[i].freets = req[r].doc.freets)
  /\ [][\A r \in Slots :
          RefreshFollowsFilterChange(r) =>
            LET i == IndexOfId(req[r].doc._id)
            IN /\ feeds'[i].activeFilter = feeds[i].activeFilter
               /\ feeds'[i].freets = feeds[i].freets]_vars

\* C5: a refresh under any activeFilter t other than "latest" and "following"
\* sets posts to the ids of the stored freets that carry tag t, in store order,
\* and "latest" and "following" are never dispatched to the tag query
C5_TagFilterSelectsTaggedFreets ==
  \A r \in Slots :
    InRefresh(r) =>
      LET t == req[r].doc.activeFilter
          i == IndexOfId(req[r].doc._id)
      IN /\ t \notin {"latest", "following"} =>
              /\ req[r].queried = "findAllWithTag"
              /\ req[r].doc.freets = FreetIds(SelectSeq(req[r].seen, LAMBDA f : t \in f.tags))
              /\ (req[r].pc = "refresh_populate" /\ i # 0) =>
                   feeds[i].freets = req[r].doc.freets
         /\ t \in {"latest", "following"} => req[r].queried # "findAllWithTag"

C5_Witness ==
  \E r \in Slots :
    /\ req[r].pc = "refresh_populate"
    /\ req[r].doc.activeFilter = "sports"
    /\ Len(req[r].seen) = 2
    /\ req[r].doc.freets = <<FreetIdToString(1)>>
    /\ IndexOfId(req[r].doc._id) # 0

\* C6: a refresh under "latest" sets posts to the ids of all stored freets in
\* store order, keeps no id of the previous list that the store does not hold,
\* and sets lastRefresh to the time of the refresh
C6_LatestReplacesPosts ==
  \A r \in Slots :
    (InRefresh(r) /\ req[r].doc.activeFilter = "latest") =>
      LET i == IndexOfId(req[r].doc._id)
      IN /\ req[r].doc.freets = FreetIds(req[r].seen)
         /\ \A id \in Range(req[r].doc.freets) : id \in Range(FreetIds(req[r].seen))
         /\ req[r].doc.lastRefresh = req[r].seenAt
         /\ (req[r].pc = "refresh_populate" /\ i # 0) =>
              /\ feeds[i].freets = FreetIds(req[r].seen)
              /\ feeds[i].lastRefresh = req[r].seenAt

C6_Witness ==
  \E r \in Slots :
    /\ req[r].pc = "refresh_populate" /\ req[r].op = "GET"
    /\ req[r].doc.activeFilter = "latest"
    /\ \E id \in Range(req[r].before.freets) : id \notin Range(FreetIds(req[r].seen))
    /\ req[r].doc.freets # <<>>
    /\ req[r].seenAt > req[r].before.lastRefresh
    /\ IndexOfId(req[r].doc._id) # 0

\* C7: when the owner has no Feed Record (it has been deleted), every step of
\* the middleware, of refreshFeed and of updateActiveFilter that looks the
\* record up ends the call with the NotFound outcome (404, feedNotFound), and
\* no Feed Record is created or modified
C7_NoFeedIsNotFound ==
  [][\A r \in Slots :
       (/\ req[r].pc \in {"isFeedExists", "isFeedOwner", "update_find", "refresh_find"}
        /\ req'[r] # req[r]
        /\ FindOneByUser(req[r].session) = 0)
       => /\ req'[r].pc = "done"
          /\ req'[r].status = "404"
          /\ feeds' = feeds]_vars

\* C8: no two Feed Records have the same owner
C8_OneFeedPerOwner ==
  \A i, j \in DOMAIN feeds : feeds[i].ownerId = feeds[j].ownerId => i = j

\* C9: a newly created record has activeFilter "latest" and no posts, and the
\* persisted activeFilter of every record is a non-empty string
C9_ActiveFilterNeverEmpty ==
  /\ [](\A i \in DOMAIN feeds : feeds[i].activeFilter \notin {"", Undefined})
  /\ [][Len(feeds') > Len(feeds) =>
          /\ feeds'[Len(feeds')].activeFilter = "latest"
          /\ feeds'[Len(feeds')].freets = <<>>]_vars

C9_Witness ==
  \E r \in Slots :
    /\ req[r].pc = "done" /\ req[r].op = "PUT"
    /\ req[r].status = "ValidationError"
    /\ feeds # <<>>

\* C10: deleteOne returns true exactly when a record with the id existed and
\* was removed
C10_DeleteReturnsWhetherRemoved ==
  [][(lastDelete'.returned # lastDelete.returned \/ Len(feeds') < Len(feeds))
       => (lastDelete'.returned <=> Len(feeds') < Len(feeds))]_vars

\* C11: the handler of GET /api/feeds and of PUT /api/feeds/:activeFilter starts
\* only for a logged-in session whose user owns an existing Feed Record; a
\* request that is not logged in, or whose caller is not the owner of the feed
\* found, is answered 403; a request whose user has no feed is answered 404;
\* a rejected request modifies no Feed Record
C11_HandlerOnlyForLoggedInOwner ==
  [][\A r \in Slots :
       LET q == req[r]
           hasFeed == \E i \in DOMAIN feeds : feeds[i].ownerId = q.session
           arrives == q.pc \in {"idle", "done"} /\ req'[r].pc # "idle" /\ req'[r] # q
       IN /\ (q.pc = "isFeedOwner" /\ req'[r].pc \in {"refresh_find", "update_find"})
               => IsLoggedIn(q.session) /\ hasFeed
          /\ (req'[r].pc \in {"isFeedExists", "isFeedOwner", "refresh_find", "update_find",
                               "update_save", "refresh_query", "refresh_user", "refresh_save",
                               "refresh_populate"})
               => IsLoggedIn(req'[r].session)
          /\ (arrives /\ ~IsLoggedIn(req'[r].session))
               => req'[r].pc = "done" /\ req'[r].status = "403" /\ feeds' = feeds
          /\ (q.pc = "isFeedExists" /\ req'[r] # q /\ ~hasFeed)
               => req'[r].pc = "done" /\ req'[r].status = "404" /\ feeds' = feeds
          /\ (q.pc = "isFeedOwner" /\ req'[r] # q /\ hasFeed
                /\ feeds[FindOneByUser(q.session)].ownerId # q.session)
               => req'[r].pc = "done" /\ req'[r].status = "403" /\ feeds' = feeds
          /\ (req'[r] # q /\ req'[r].pc = "done" /\ req'[r].status \in {"403", "404"})
               => feeds' = feeds]_vars

C11_Witness ==
  \E r \in Slots :
    /\ req[r].pc = "done" /\ req[r].status = "403"
    /\ ~IsLoggedIn(req[r].session)
    /\ \E i \in DOMAIN feeds : feeds[i].freets # <<>>

\* C12: the FeedResponse of a successful request has exactly the fields _id,
\* owner, activeFilter and freets; owner is the username of the record's owner
\* and freets are the record's posts
C12_ResponseHasExactlyFourFields ==
  \A r \in DOMAIN req :
    req[r].pc = "refresh_populate" =>
      LET response == ConstructFeedResponse(req[r].doc, PopulatedByRefresh)
      IN /\ DOMAIN response = {"_id", "owner", "activeFilter", "freets"}
         /\ response.owner = Username(req[r].doc.ownerId)
         /\ response.freets = req[r].doc.freets

\* the channel (by index in channels) is removed or changed by the step
ChannelTouched(i) ==
  \/ \A j \in DOMAIN channels' : channels'[j]._id # channels[i]._id
  \/ \E j \in DOMAIN channels' :
       channels'[j]._id = channels[i]._id /\ channels'[j] # channels[i]

\* C13: DELETE /api/channels/:channelId and the PUT description update remove
\* or change the channel named by :channelId only, and only when the session's
\* user is the owner of that channel, whatever name and channelId the body carries
C13_OnlyOwnerDeletesOrUpdates ==
  [][\A r \in DOMAIN creq : \A i \in DOMAIN channels :
       (creq[r].pc \in {"deleteOne", "updateOne_save"} /\ creq'[r].pc = "done"
          /\ ChannelTouched(i))
       => /\ channels[i]._id = creq[r].paramId
          /\ channels[i].ownerId = creq[r].session]_vars

\* C14: a join request of a user already in the channel is answered 403 and
\* leaves the users list unchanged, so the users list of a channel contains
\* each username at most once, after any sequence or interleaving of join and
\* leave requests
C14_EachUsernameAtMostOnce ==
  \A c \in DOMAIN channels :
    \A i, j \in DOMAIN channels[c].users :
      channels[c].users[i] = channels[c].users[j] => i = j

\* C15: a create request whose name is in use is answered 409 and creates
\* nothing, so no two channels have the same name, after any sequence or
\* interleaving of create requests
C15_ChannelNamesDistinct ==
  \A i, j \in DOMAIN channels : channels[i].name = channels[j].name => i = j

\* C17: a leave request removes only the username of the requesting user:
\* every other member of the channel before the removal is a member after it,
\* for every interleaving of leave requests; a leave request of a user who is
\* not in the channel is answered 403 and changes nothing
C17_LeaveRemovesOnlyOwnUsername ==
  [][\A r \in DOMAIN creq :
       /\ (creq[r].pc = "leaveOne_save" /\ creq'[r].pc = "done")
            => \A c \in DOMAIN channels :
                 \A m \in Range(channels[c].users) \ {Username(creq[r].session)} :
                   m \in Range(channels'[c].users)
       /\ (creq[r].pc = "isUserInChannel" /\ creq'[r] # creq[r]
              /\ FindOneByName(creq[r].name) # 0
              /\ ~UsernameInUsers(creq[r].session,
                                  channels[FindOneByName(creq[r].name)].users))
            => creq'[r].status = "403" /\ channels' = channels]_vars

\* C16: for every interleaving of two concurrent calls on the same owner (two
\* refreshes, or a refresh and a filter change) against a Post Store that does
\* not change, once both calls have completed the persisted record is the one
\* written by the last save as a whole: its posts are the freets selected
\* under its persisted activeFilter
C16_LastSaveWinsAsAWhole ==
  (\A r \in DOMAIN req : req[r].pc = "done" /\ req[r].status = "200")
  => \A i \in DOMAIN feeds :
       feeds[i].freets = FreetIds(SelectFreets(store, feeds[i].activeFilter, feeds[i].ownerId))

====
